---- MODULE Spec2Model ----
(***************************************************************************)
(* NVM programming core of the UPDI4AVR firmware (NVM.cpp).                *)
(*                                                                         *)
(* One call of a public routine (read_signature, read_memory,              *)
(* write_memory) is one action.  The routine's body is a pure function of  *)
(* the session flags, the descriptor, the request and the answers of the   *)
(* transport; the answers of the transport are an input ("oracle") of the  *)
(* action.  Every transport operation the call issues is appended to       *)
(* `trace', every writer it enters to `calls'.                             *)
(***************************************************************************)
EXTENDS Integers, Sequences, FiniteSets, TLC

VARIABLES
  UPDI_CONTROL,          \* set bits of UPDI_CONTROL: subset of {"PROG","INFO","ERFM"}
  UPDI_NVMCTRL,          \* set bits of UPDI_NVMCTRL: subset of {"GEN2","GEN3","GEN5"}
  features,              \* compiled-in features: subset of {"LOCK_SIG","DUMP_SIB"}
  flash_page_size,       \* JTAG2::updi_desc.flash_page_size
  sib,                   \* JTAG2::updi_desc.sib (32 bytes, index 0..31)
  signature,             \* JTAG2::updi_desc.signature (3 bytes, index 0..2)
  nvm_signature_offset,  \* JTAG2::updi_desc.nvm_signature_offset
  ctrla,                 \* target: opcode latched in the NVMCTRL control register
  pc,                    \* "idle": waiting for a request, "done": a call has returned
  req,                   \* the request of the last call
  ret,                   \* the boolean the last call returned
  rsp,                   \* result code in the response buffer (MESSAGE_ID)
  data,                  \* response data bytes written by the last call
  trace,                 \* transport operations (and delays) issued by the last call
  calls,                 \* writers entered by the last call
  sig_writes,            \* history: how often the signature has been resolved (saturating)
  busy_polls             \* target: polls of the status that still read busy (-1: all)

vars == <<UPDI_CONTROL, UPDI_NVMCTRL, features, flash_page_size, sib, signature,
          nvm_signature_offset, ctrla, pc, req, ret, rsp, data, trace, calls,
          sig_writes, busy_polls>>

(***************************************************************************)
(* Bounds of the model.                                                    *)
(***************************************************************************)
MaxFail == 7       \* a checked transport operation up to this index may fail
MaxGarble == 2     \* a byte load up to this index may return garbage
MaxBusy == 2       \* a status wait sees at most this many busy polls
MaxSigWrites == 2  \* sig_writes stops counting here

(***************************************************************************)
(* Integer helpers (C unsigned arithmetic).                                *)
(***************************************************************************)
RECURSIVE BitAnd(_, _)
BitAnd(a, b) ==
  IF a = 0 \/ b = 0 THEN 0
  ELSE 2 * BitAnd(a \div 2, b \div 2) + (IF a % 2 = 1 /\ b % 2 = 1 THEN 1 ELSE 0)

U8(x) == x % 256
U16(x) == x % 65536
ShiftRight(x, n) == x \div (2 ^ n)

(***************************************************************************)
(* The request buffer: byte i (0-based) of the data of a write request     *)
(* with seed s.                                                            *)
(***************************************************************************)
DataByte(s, i) == U8(s + i)
DataBlock(s, n) == [i \in 1..n |-> DataByte(s, i - 1)]

(***************************************************************************)
(* The target's memory as the transport reads it.                          *)
(***************************************************************************)
TargetByte(a) == U8(a + 30)
TargetBlock(a, n) == [i \in 1..n |-> TargetByte(a + i - 1)]

(***************************************************************************)
(* Transport.  A machine m is the state of one call in progress:           *)
(*   tr     operations issued so far                                       *)
(*   calls  writers entered so far                                         *)
(*   nc     number of checked operations (those returning bool) so far     *)
(*   nl     number of ld8 byte loads so far                                *)
(*   ctrla  opcode latched in the target's control register                *)
(*   r      result of the last checked operation / of the routine          *)
(*   v      last byte received (UPDI_LASTL)                                *)
(*   c      opcode last read from the control register                     *)
(*   rsp    result code, out the response data                             *)
(*   sig    updi_desc.signature, off updi_desc.nvm_signature_offset        *)
(*   nres   number of times this call has resolved the signature           *)
(*   o      the oracle: o.sf index of the checked operation that fails     *)
(*          (0: none), o.lf index of the ld8 that returns garbage o.g      *)
(*          (0: none), o.busy busy polls per wait with value o.bv, o.fin   *)
(*          the status once idle                                           *)
(***************************************************************************)
Entry(op, reg, addr, cmd, bytes, ok) ==
  [op |-> op, reg |-> reg, addr |-> addr, cmd |-> cmd, bytes |-> bytes, ok |-> ok]

Machine(o) ==
  [tr |-> <<>>, calls |-> <<>>, nc |-> 0, nl |-> 0, ctrla |-> ctrla, r |-> TRUE,
   v |-> 0, c |-> "NOCMD", rsp |-> rsp, out |-> <<>>,
   sig |-> signature, off |-> nvm_signature_offset, nres |-> 0, o |-> o]

Checked(m, op, reg, addr, cmd, bytes) ==
  LET k == m.nc + 1
      ok == k # m.o.sf
  IN [m EXCEPT !.nc = k,
               !.tr = Append(@, Entry(op, reg, addr, cmd, bytes, ok)),
               !.ctrla = IF ok /\ reg = "NVMCTRL_REG_CTRLA" THEN cmd ELSE @,
               !.r = ok]

\* UPDI::st8(addr, byte) to a memory address
st8(m, addr, byte) == Checked(m, "st8", "MEM", addr, "", <<byte>>)
\* block stores to a memory address
sts8(m, addr, bytes) == Checked(m, "sts8", "MEM", addr, "", bytes)
sts8rsd(m, addr, bytes) == Checked(m, "sts8rsd", "MEM", addr, "", bytes)
sts16rsd(m, addr, bytes) == Checked(m, "sts16rsd", "MEM", addr, "", bytes)
\* block loads from a memory address
lds8(m, addr, n) == Checked(m, "lds8", "MEM", addr, "", TargetBlock(addr, n))
lds16(m, addr, n) == Checked(m, "lds16", "MEM", addr, "", TargetBlock(addr, n))
write_userrow(m, addr, bytes) == Checked(m, "write_userrow", "MEM", addr, "", bytes)

\* UPDI::ld8 of a status register whose content is `truth'
ld8_status(m, reg, truth) ==
  LET k == m.nl + 1
      val == IF k = m.o.lf THEN m.o.g ELSE truth
  IN [m EXCEPT !.nl = k,
               !.tr = Append(@, Entry("ld8", reg, 0, "", <<val>>, k # m.o.lf)),
               !.v = val]

\* UPDI::ld8(NVMCTRL_REG_CTRLA)
ld8_ctrla(m) ==
  LET k == m.nl + 1
      val == IF k = m.o.lf THEN (IF m.o.g = 0 THEN "NOCMD" ELSE "INVALID") ELSE m.ctrla
  IN [m EXCEPT !.nl = k,
               !.tr = Append(@, Entry("ld8", "NVMCTRL_REG_CTRLA", 0, val, <<>>, k # m.o.lf)),
               !.c = val]

delay_50us(m) == [m EXCEPT !.tr = Append(@, Entry("delay_50us", "", 0, "", <<>>, TRUE))]

set_response(m, code) == [m EXCEPT !.rsp = code]

Enter(m, fn, addr, n, bound) ==
  [m EXCEPT !.calls = Append(@, [fn |-> fn, addr |-> addr, n |-> n, bound |-> bound])]

(***************************************************************************)
(* NVMCTRL operation.                                                      *)
(***************************************************************************)
\* the loop of nvm_wait / nvm_wait_v3; j polls of this wait have been made
RECURSIVE WaitLoop(_, _, _)
WaitLoop(m, reg, j) ==
  LET m1 == ld8_status(m, reg, IF j < m.o.busy THEN m.o.bv ELSE m.o.fin)
  IN IF BitAnd(m1.v, 3) # 0 THEN WaitLoop(delay_50us(m1), reg, j + 1) ELSE m1

nvm_wait(m) == WaitLoop(m, "NVMCTRL_REG_STATUS", 0)

\* variant of nvm_wait_v3: polls the status register of generations 0/2/4
nvm_wait_v3_legacy(m) == WaitLoop(m, "NVMCTRL_REG_STATUS", 0)

nvm_wait_v3(m) == WaitLoop(m, "NVMCTRL_V3_REG_STATUS", 0)

nvm_ctrl(m, nvmcmd) == Checked(m, "st8", "NVMCTRL_REG_CTRLA", 0, nvmcmd, <<>>)

\* variant of nvm_ctrl_change: the control register is not compared first
nvm_ctrl_change_always(m, nvmcmd) ==
  LET m1 == ld8_ctrla(m)
      m2 == nvm_ctrl(m1, "NOCMD")
  IN IF ~m2.r THEN m2
     ELSE IF nvmcmd # "NOCMD" THEN nvm_ctrl(m2, nvmcmd)
     ELSE [m2 EXCEPT !.r = TRUE]

nvm_ctrl_change(m, nvmcmd) ==
  LET m1 == ld8_ctrla(m)
  IN IF m1.c = nvmcmd THEN [m1 EXCEPT !.r = TRUE]
     ELSE LET m2 == nvm_ctrl(m1, "NOCMD")
          IN IF ~m2.r THEN m2
             ELSE IF nvmcmd # "NOCMD" THEN nvm_ctrl(m2, nvmcmd)
             ELSE [m2 EXCEPT !.r = TRUE]

nvm_ctrl_v2(m, nvmcmd) == nvm_ctrl_change(nvm_wait(m), nvmcmd)

nvm_ctrl_v3(m, nvmcmd) == nvm_ctrl_change(nvm_wait_v3(m), nvmcmd)

(***************************************************************************)
(* FUSE region write (NVMCTRL version 0 only).                             *)
(***************************************************************************)
\* struct fuse_packet_t { uint16_t data; uint16_t addr; } as bytes in memory
fuse_packet(addr, byte) == <<U8(byte), byte \div 256, U8(addr), addr \div 256>>

\* variant of write_fuse: only the low 2 bits of the final status are tested
write_fuse_mask(m0, addr, byte) ==
  LET m == Enter(m0, "write_fuse", addr, 1, FALSE)
      m1 == nvm_wait(m)
      m2 == Checked(m1, "sts8", "NVMCTRL_REG_DATA", 0, "", fuse_packet(addr, byte))
  IN IF ~m2.r THEN [m2 EXCEPT !.r = FALSE]
     ELSE LET m3 == nvm_ctrl(m2, "WFU")
          IN IF ~m3.r THEN [m3 EXCEPT !.r = FALSE]
             ELSE LET m4 == nvm_wait(m3)
                  IN [m4 EXCEPT !.r = (BitAnd(m4.v, 3) = 0)]

write_fuse(m0, addr, byte) ==
  LET m == Enter(m0, "write_fuse", addr, 1, FALSE)
      m1 == nvm_wait(m)
      m2 == Checked(m1, "sts8", "NVMCTRL_REG_DATA", 0, "", fuse_packet(addr, byte))
  IN IF ~m2.r THEN [m2 EXCEPT !.r = FALSE]
     ELSE LET m3 == nvm_ctrl(m2, "WFU")
          IN IF ~m3.r THEN [m3 EXCEPT !.r = FALSE]
             ELSE LET m4 == nvm_wait(m3)
                  IN [m4 EXCEPT !.r = (BitAnd(m4.v, 7) = 0)]

(***************************************************************************)
(* EEPROM region writing.                                                  *)
(***************************************************************************)
write_eeprom_v3(m0, start_addr, seed, byte_count) ==
  LET m == Enter(m0, "write_eeprom_v3", start_addr, byte_count, FALSE)
  IN IF byte_count > 8
     THEN [set_response(m, "RSP_ILLEGAL_MEMORY_RANGE") EXCEPT !.r = TRUE]
     ELSE LET m1 == nvm_ctrl(m, "EEPBCLR")
          IN IF ~m1.r THEN [m1 EXCEPT !.r = FALSE]
             ELSE LET m2 == IF byte_count = 1
                            THEN st8(m1, start_addr, DataByte(seed, 0))
                            ELSE sts8(m1, start_addr, DataBlock(seed, byte_count))
                  IN nvm_ctrl(m2, "EEPERW")

\* variant of write_eeprom_v2: the ceiling is 4 bytes
write_eeprom_v2_wide(m0, start_addr, seed, byte_count) ==
  LET m == Enter(m0, "write_eeprom_v2", start_addr, byte_count, FALSE)
  IN IF byte_count > 4
     THEN [set_response(m, "RSP_ILLEGAL_MEMORY_RANGE") EXCEPT !.r = TRUE]
     ELSE LET m1 == nvm_ctrl_v2(m, "EEERWR")
          IN IF ~m1.r THEN [m1 EXCEPT !.r = FALSE]
             ELSE LET m2 == IF byte_count = 1
                            THEN st8(m1, start_addr, DataByte(seed, 0))
                            ELSE sts8(m1, start_addr, DataBlock(seed, byte_count))
                  IN nvm_ctrl_v2(m2, "NOCMD")

write_eeprom_v2(m0, start_addr, seed, byte_count) ==
  LET m == Enter(m0, "write_eeprom_v2", start_addr, byte_count, FALSE)
  IN IF byte_count > 2
     THEN [set_response(m, "RSP_ILLEGAL_MEMORY_RANGE") EXCEPT !.r = TRUE]
     ELSE LET m1 == nvm_ctrl_v2(m, "EEERWR")
          IN IF ~m1.r THEN [m1 EXCEPT !.r = FALSE]
             ELSE LET m2 == IF byte_count = 1
                            THEN st8(m1, start_addr, DataByte(seed, 0))
                            ELSE sts8(m1, start_addr, DataBlock(seed, byte_count))
                  IN nvm_ctrl_v2(m2, "NOCMD")

write_eeprom_v0(m0, start_addr, seed, byte_count) ==
  LET m == Enter(m0, "write_eeprom_v0", start_addr, byte_count, FALSE)
  IN IF byte_count > 64
     THEN [set_response(m, "RSP_ILLEGAL_MEMORY_RANGE") EXCEPT !.r = TRUE]
     ELSE LET m1 == nvm_wait(m)
              m2 == IF byte_count = 1
                    THEN st8(m1, start_addr, DataByte(seed, 0))
                    ELSE sts8rsd(m1, start_addr, DataBlock(seed, byte_count))
          IN nvm_ctrl(m2, "ERWP")

(***************************************************************************)
(* Flash region writing.                                                   *)
(***************************************************************************)
\* variant of write_flash_v3: the result of the 0xFF store is not checked
write_flash_v3_unchecked(m0, start_addr, seed, byte_count, is_bound) ==
  LET m == Enter(m0, "write_flash_v3", start_addr, byte_count, is_bound)
      m1 == nvm_wait_v3(m)
      e1 == st8(m1, start_addr, 255)
      e2 == nvm_ctrl(e1, "FLPER")
      c1 == nvm_ctrl(m1, "FLPBCLR")
  IN IF is_bound /\ ~e2.r THEN [e2 EXCEPT !.r = FALSE]
     ELSE IF ~is_bound /\ ~c1.r THEN [c1 EXCEPT !.r = FALSE]
     ELSE LET m2 == nvm_wait_v3(IF is_bound THEN e2 ELSE c1)
              m3 == IF byte_count = 1
                    THEN st8(m2, start_addr, DataByte(seed, 0))
                    ELSE sts8rsd(m2, start_addr, DataBlock(seed, byte_count))
          IN nvm_ctrl(m3, "FLPW")

write_flash_v3(m0, start_addr, seed, byte_count, is_bound) ==
  LET m == Enter(m0, "write_flash_v3", start_addr, byte_count, is_bound)
      m1 == nvm_wait_v3(m)
      e1 == st8(m1, start_addr, 255)
      e2 == nvm_ctrl(e1, "FLPER")
      c1 == nvm_ctrl(m1, "FLPBCLR")
  IN IF is_bound /\ ~e1.r THEN [e1 EXCEPT !.r = FALSE]
     ELSE IF is_bound /\ ~e2.r THEN [e2 EXCEPT !.r = FALSE]
     ELSE IF ~is_bound /\ ~c1.r THEN [c1 EXCEPT !.r = FALSE]
     ELSE LET m2 == nvm_wait_v3(IF is_bound THEN e2 ELSE c1)
              m3 == IF byte_count = 1
                    THEN st8(m2, start_addr, DataByte(seed, 0))
                    ELSE sts8rsd(m2, start_addr, DataBlock(seed, byte_count))
          IN nvm_ctrl(m3, "FLPW")

write_flash_v2(m0, start_addr, seed, byte_count, is_bound) ==
  LET m == Enter(m0, "write_flash_v2", start_addr, byte_count, is_bound)
      e1 == nvm_ctrl_v2(m, "FLPER")
      e2 == st8(e1, start_addr, 255)
  IN IF is_bound /\ ~e1.r THEN [e1 EXCEPT !.r = FALSE]
     ELSE IF is_bound /\ ~e2.r THEN [e2 EXCEPT !.r = FALSE]
     ELSE LET m1 == nvm_ctrl_v2(IF is_bound THEN e2 ELSE m, "FLWR")
          IN IF ~m1.r THEN [m1 EXCEPT !.r = FALSE]
             ELSE LET m2 == IF byte_count = 1
                            THEN st8(m1, start_addr, DataByte(seed, 0))
                            ELSE IF ShiftRight(U16(byte_count - 1), 8) # 0
                            THEN sts16rsd(m1, start_addr, DataBlock(seed, byte_count))
                            ELSE sts8rsd(m1, start_addr, DataBlock(seed, byte_count))
                  IN nvm_ctrl_v2(m2, "NOCMD")

write_flash_v0(m0, start_addr, seed, byte_count, is_bound) ==
  LET m == Enter(m0, "write_flash_v0", start_addr, byte_count, is_bound)
      e1 == nvm_ctrl(nvm_wait(m), "PBC")
  IN IF is_bound /\ ~e1.r THEN [e1 EXCEPT !.r = FALSE]
     ELSE LET m1 == nvm_wait(IF is_bound THEN e1 ELSE m)
              m2 == IF byte_count = 1
                    THEN st8(m1, start_addr, DataByte(seed, 0))
                    ELSE sts8rsd(m1, start_addr, DataBlock(seed, byte_count))
          IN nvm_ctrl(m2, "ERWP")

(***************************************************************************)
(* Signature reading.                                                      *)
(***************************************************************************)
\* variant of SignatureOffset: the two canonical offsets are exchanged
SignatureOffset_swapped == IF "GEN5" \in UPDI_NVMCTRL THEN 4352 ELSE 4224

SignatureOffset == IF "GEN5" \in UPDI_NVMCTRL THEN 4224 ELSE 4352   \* 0x1080 / 0x1100

\* variant of read_signature: a failed read leaves the cached signature as it was
read_signature_keep(m0, start_addr) ==
  LET rd == lds8(m0, start_addr, 3)
      m1 == IF start_addr # SignatureOffset THEN m0
            ELSE IF "PROG" \in UPDI_CONTROL
            THEN [rd EXCEPT !.off = start_addr, !.nres = @ + 1,
                            !.sig = IF rd.r THEN [i \in 0..2 |-> TargetByte(start_addr + i)]
                                    ELSE m0.sig]
            ELSE IF "INFO" \in UPDI_CONTROL
            THEN LET c == IF sib[0] = 32 THEN sib[4] ELSE sib[0]
                 IN [m0 EXCEPT !.off = start_addr, !.nres = @ + 1,
                               !.sig = [i \in 0..2 |-> IF i = 0 THEN 30
                                                       ELSE IF i = 1 THEN c ELSE sib[10]]]
            ELSE [m0 EXCEPT !.off = start_addr, !.nres = @ + 1,
                            !.sig = [i \in 0..2 |-> 255]]
      idx == U8(start_addr - m1.off)
  IN IF idx < 3 THEN [m1 EXCEPT !.out = <<m1.sig[idx]>>, !.r = TRUE]
     ELSE [m1 EXCEPT !.r = FALSE]

read_signature(m0, start_addr) ==
  LET rd == lds8(m0, start_addr, 3)
      m1 == IF start_addr # SignatureOffset THEN m0
            ELSE IF "PROG" \in UPDI_CONTROL
            THEN [rd EXCEPT !.off = start_addr, !.nres = @ + 1,
                            !.sig = IF rd.r THEN [i \in 0..2 |-> TargetByte(start_addr + i)]
                                    ELSE [i \in 0..2 |-> 0]]
            ELSE IF "INFO" \in UPDI_CONTROL
            THEN LET c == IF sib[0] = 32 THEN sib[4] ELSE sib[0]
                 IN [m0 EXCEPT !.off = start_addr, !.nres = @ + 1,
                               !.sig = [i \in 0..2 |-> IF i = 0 THEN 30
                                                       ELSE IF i = 1 THEN c ELSE sib[10]]]
            ELSE [m0 EXCEPT !.off = start_addr, !.nres = @ + 1,
                            !.sig = [i \in 0..2 |-> 255]]
      idx == U8(start_addr - m1.off)
  IN IF idx < 3 THEN [m1 EXCEPT !.out = <<m1.sig[idx]>>, !.r = TRUE]
     ELSE [m1 EXCEPT !.r = FALSE]

(***************************************************************************)
(* Memory reading core.                                                    *)
(***************************************************************************)
\* variant of DummyFill: the count is decremented before the first store
DummyFill_short(byte_count) ==
  [i \in 1..(IF byte_count = 0 THEN 65536 ELSE byte_count) - 1 |-> 255]

\* do { *data++ = 0xFF; } while (--byte_count);  with a 16-bit byte_count:
\* the loop runs byte_count times, 65536 times when byte_count is 0
DummyFill(byte_count) ==
  [i \in 1..(IF byte_count = 0 THEN 65536 ELSE byte_count) |-> 255]

\* variant of IllegalReadCount: odd counts above 256 are accepted
IllegalReadCount_any(byte_count) ==
  byte_count = 0 \/ byte_count > 512

\* Reads from 1 to 256 bytes and even bytes 258 to 512 are allowed
IllegalReadCount(byte_count) ==
  byte_count = 0 \/ byte_count > 512 \/ (byte_count > 256 /\ BitAnd(byte_count, 1) # 0)

read_memory(m0, mem_type, start_addr, byte_count) ==
  LET m == set_response(m0, "RSP_MEMORY")
  IN IF IllegalReadCount(byte_count)
     THEN [set_response(m, "RSP_ILLEGAL_MEMORY_RANGE") EXCEPT !.r = TRUE]
     ELSE IF byte_count = 1 /\ "LOCK_SIG" \in features /\ mem_type = "MTYPE_SIGN_JTAG"
     THEN read_signature(m, U16(start_addr))
     ELSE IF /\ byte_count = 1 /\ "DUMP_SIB" \in features
             /\ "PROG" \in UPDI_CONTROL
             /\ BitAnd(U8(ShiftRight(start_addr, 16)), 128) = 0
             /\ U16(start_addr) < 32
     THEN [m EXCEPT !.out = <<sib[U8(start_addr)]>>, !.r = TRUE]
     ELSE IF "PROG" \notin UPDI_CONTROL
     THEN [m EXCEPT !.out = DummyFill(byte_count), !.r = TRUE]
     ELSE LET rd == IF ShiftRight(U16(byte_count - 1), 8) # 0
                    THEN lds16(m, start_addr, byte_count)
                    ELSE lds8(m, start_addr, byte_count)
          IN [rd EXCEPT !.out = IF rd.r THEN TargetBlock(start_addr, byte_count) ELSE <<>>]

(***************************************************************************)
(* NVM write core.                                                         *)
(***************************************************************************)
FlashTypes == {"MTYPE_FLASH_PAGE", "MTYPE_XMEGA_APP_FLASH", "MTYPE_XMEGA_BOOT_FLASH"}
FuseTypes == {"MTYPE_LOCK_BITS", "MTYPE_FUSE_BITS"}
EepromTypes == {"MTYPE_XMEGA_EEPROM", "MTYPE_EEPROM_PAGE", "MTYPE_EEPROM"}

\* variant of FuseRun: the address is not advanced from byte to byte
RECURSIVE FuseRun_same(_, _, _, _, _)
FuseRun_same(m, start_addr, seed, lo, hi) ==
  IF ~m.r THEN m
  ELSE IF lo = hi THEN write_fuse(m, U16(start_addr), DataByte(seed, lo))
  ELSE LET mid == (lo + hi) \div 2
       IN FuseRun_same(FuseRun_same(m, start_addr, seed, lo, mid), start_addr, seed, mid + 1, hi)

\* do { if (!write_fuse(start_addr++, *data++)) return false; } while (--byte_count);
\* FuseRun runs iterations lo..hi of the loop (0-based) unless an earlier
\* iteration has returned false; the loop is split in halves to keep the
\* evaluation shallow.  A 16-bit byte_count of 0 makes the loop run 65536 times.
RECURSIVE FuseRun(_, _, _, _, _)
FuseRun(m, start_addr, seed, lo, hi) ==
  IF ~m.r THEN m
  ELSE IF lo = hi THEN write_fuse(m, U16(start_addr + lo), DataByte(seed, lo))
  ELSE LET mid == (lo + hi) \div 2
       IN FuseRun(FuseRun(m, start_addr, seed, lo, mid), start_addr, seed, mid + 1, hi)

FuseLoop(m, start_addr, seed, byte_count) ==
  FuseRun([m EXCEPT !.r = TRUE], start_addr, seed, 0,
          (IF byte_count = 0 THEN 65536 ELSE byte_count) - 1)

write_eeprom(m, start_addr, seed, byte_count) ==
  IF "GEN3" \in UPDI_NVMCTRL THEN write_eeprom_v3(m, start_addr, seed, byte_count)
  ELSE IF "GEN2" \in UPDI_NVMCTRL THEN write_eeprom_v2(m, start_addr, seed, byte_count)
  ELSE write_eeprom_v0(m, start_addr, seed, byte_count)

\* variant of is_bound: the boundary-force-off flag is not consulted
is_bound_aligned(start_addr) ==
  BitAnd(U16(flash_page_size - 1), U16(start_addr)) = 0

is_bound(start_addr) ==
  /\ "ERFM" \notin UPDI_CONTROL
  /\ BitAnd(U16(flash_page_size - 1), U16(start_addr)) = 0

\* variant of write_flash: a page-size mismatch is reported as a failed call
write_flash_fail(m, start_addr, seed, byte_count) ==
  IF flash_page_size # byte_count /\ 256 # byte_count
  THEN [set_response(m, "RSP_NO_TARGET_POWER") EXCEPT !.r = FALSE]
  ELSE IF "GEN3" \in UPDI_NVMCTRL
  THEN write_flash_v3(m, start_addr, seed, byte_count, is_bound(start_addr))
  ELSE IF "GEN2" \in UPDI_NVMCTRL
  THEN write_flash_v2(m, start_addr, seed, byte_count, is_bound(start_addr))
  ELSE write_flash_v0(m, start_addr, seed, byte_count, is_bound(start_addr))

\* variant of write_flash: the two size comparisons are joined by "or"
write_flash_either(m, start_addr, seed, byte_count) ==
  IF flash_page_size # byte_count \/ 256 # byte_count
  THEN [set_response(m, "RSP_NO_TARGET_POWER") EXCEPT !.r = TRUE]
  ELSE IF "GEN3" \in UPDI_NVMCTRL
  THEN write_flash_v3(m, start_addr, seed, byte_count, is_bound(start_addr))
  ELSE IF "GEN2" \in UPDI_NVMCTRL
  THEN write_flash_v2(m, start_addr, seed, byte_count, is_bound(start_addr))
  ELSE write_flash_v0(m, start_addr, seed, byte_count, is_bound(start_addr))

write_flash(m, start_addr, seed, byte_count) ==
  IF flash_page_size # byte_count /\ 256 # byte_count
  THEN [set_response(m, "RSP_NO_TARGET_POWER") EXCEPT !.r = TRUE]
  ELSE IF "GEN3" \in UPDI_NVMCTRL
  THEN write_flash_v3(m, start_addr, seed, byte_count, is_bound(start_addr))
  ELSE IF "GEN2" \in UPDI_NVMCTRL
  THEN write_flash_v2(m, start_addr, seed, byte_count, is_bound(start_addr))
  ELSE write_flash_v0(m, start_addr, seed, byte_count, is_bound(start_addr))

\* variant of Override: the address is masked but the memory type is kept
Override_addr(mem_type, addr) ==
  IF ShiftRight(addr, 24) # 0
  THEN [mem_type |-> mem_type, start_addr |-> BitAnd(addr, 65535)]
  ELSE [mem_type |-> mem_type, start_addr |-> addr]

\* the memory type and the address after the IO-space override
Override(mem_type, addr) ==
  IF ShiftRight(addr, 24) # 0
  THEN [mem_type |-> "MTYPE_SRAM", start_addr |-> BitAnd(addr, 65535)]
  ELSE [mem_type |-> mem_type, start_addr |-> addr]

write_memory(m0, packet_mem_type, packet_addr, byte_count, seed) ==
  LET mem_type == Override(packet_mem_type, packet_addr).mem_type
      start_addr == Override(packet_mem_type, packet_addr).start_addr
      m == set_response(m0, "RSP_OK")
  IN IF "INFO" \in UPDI_CONTROL /\ mem_type = "MTYPE_XMEGA_USERSIG"
     THEN write_userrow(m, start_addr, DataBlock(seed, byte_count))
     ELSE IF "PROG" \notin UPDI_CONTROL THEN [m EXCEPT !.r = FALSE]
     ELSE IF mem_type \in FlashTypes THEN write_flash(m, start_addr, seed, byte_count)
     ELSE IF byte_count = 0 \/ byte_count > 256
     THEN [set_response(m, "RSP_ILLEGAL_MEMORY_RANGE") EXCEPT !.r = TRUE]
     ELSE IF mem_type = "MTYPE_SRAM"
     THEN sts8(m, start_addr, DataBlock(seed, byte_count))
     ELSE IF /\ mem_type \in FuseTypes
             /\ "GEN3" \notin UPDI_NVMCTRL /\ "GEN2" \notin UPDI_NVMCTRL
     THEN FuseLoop(m, start_addr, seed, byte_count)
     ELSE IF mem_type \in FuseTypes \cup EepromTypes
     THEN write_eeprom(m, start_addr, seed, byte_count)
     ELSE [set_response(m, "RSP_ILLEGAL_MEMORY_TYPE") EXCEPT !.r = TRUE]

(***************************************************************************)
(* Inputs.                                                                 *)
(***************************************************************************)
MemTypes ==
  FlashTypes \cup FuseTypes \cup EepromTypes
    \cup {"MTYPE_SRAM", "MTYPE_XMEGA_USERSIG", "MTYPE_SIGN_JTAG"}

\* 0x1280, 0x8000, 0x8041, 0x01001280
WriteAddrs == {4736, 32768, 32833, 16781952}
WriteCounts == {0, 1, 2, 3, 8, 9, 64, 65, 256, 257, 512}
PageSizes == {64, 512}
Seeds == {165}

\* 5, 0x1080, 0x1100, 0x1101, 0x1102, 0x1103, 0x1200, 0x8000, 0x10005, 0x800005
ReadAddrs == {5, 4224, 4352, 4353, 4354, 4355, 4608, 32768, 65541, 8388613}
ReadTypes == {"MTYPE_SIGN_JTAG", "MTYPE_FLASH_PAGE", "MTYPE_SRAM", "MTYPE_EEPROM"}
ReadCounts == {0, 1, 2, 256, 257, 258, 512, 513}

Nominal == [sf |-> 0, lf |-> 0, g |-> 0, busy |-> 0, bv |-> 1, fin |-> 0]

Oracles ==
  {Nominal}
    \cup {[Nominal EXCEPT !.sf = k] : k \in 1..MaxFail}
    \cup {[Nominal EXCEPT !.lf = k, !.g = g] : k \in 1..MaxGarble, g \in {0, 255}}
    \cup {[Nominal EXCEPT !.fin = 4]}
    \cup {[Nominal EXCEPT !.busy = b, !.bv = v, !.fin = f] :
             b \in 1..MaxBusy, v \in {1, 2}, f \in {0, 4}}

ReadOracles == {Nominal, [Nominal EXCEPT !.sf = 1]}

NoRequest == [op |-> "none", mem_type |-> "", addr |-> 0, count |-> 0]

(***************************************************************************)
(* Initial states: a session whose flags and descriptor the protocol layer *)
(* has set; this core never writes the flags.                              *)
(***************************************************************************)
InitCommon ==
  /\ signature = [i \in 0..2 |-> 0]
  /\ nvm_signature_offset = 0
  /\ ctrla = "NOCMD"
  /\ pc = "idle"
  /\ req = NoRequest
  /\ ret = TRUE
  /\ rsp = "NONE"
  /\ data = <<>>
  /\ trace = <<>>
  /\ calls = <<>>
  /\ sig_writes = 0
  /\ busy_polls = 0

InitWrite ==
  /\ UPDI_CONTROL \in SUBSET {"PROG", "INFO", "ERFM"}
  /\ UPDI_NVMCTRL \in SUBSET {"GEN2", "GEN3"}
  /\ features = {"LOCK_SIG", "DUMP_SIB"}
  /\ flash_page_size \in PageSizes
  /\ sib = [i \in 0..31 |-> 64 + i]
  /\ InitCommon

InitRead ==
  /\ UPDI_CONTROL \in SUBSET {"PROG", "INFO"}
  /\ UPDI_NVMCTRL \in {{}, {"GEN3", "GEN5"}}
  /\ features \in SUBSET {"LOCK_SIG", "DUMP_SIB"}
  /\ flash_page_size = 64
  /\ sib \in {[i \in 0..31 |-> IF i = 0 THEN s0 ELSE 64 + i] : s0 \in {32, 109}}
  /\ InitCommon

(***************************************************************************)
(* Actions: one call of a public routine each.                             *)
(***************************************************************************)
Finish(m, r) ==
  /\ pc' = "done"
  /\ req' = r
  /\ ret' = m.r
  /\ rsp' = m.rsp
  /\ data' = m.out
  /\ trace' = m.tr
  /\ calls' = m.calls
  /\ ctrla' = m.ctrla
  /\ signature' = m.sig
  /\ nvm_signature_offset' = m.off
  /\ sig_writes' = IF sig_writes + m.nres > MaxSigWrites THEN MaxSigWrites
                   ELSE sig_writes + m.nres
  /\ UNCHANGED <<UPDI_CONTROL, UPDI_NVMCTRL, features, flash_page_size, sib,
                 busy_polls>>

ReadSignature ==
  /\ pc = "idle"
  /\ \E a \in ReadAddrs, o \in ReadOracles :
       Finish(read_signature(Machine(o), U16(a)),
              [op |-> "read_signature", mem_type |-> "", addr |-> U16(a), count |-> 1])

ReadMemory ==
  /\ pc = "idle"
  /\ \E t \in ReadTypes, a \in ReadAddrs, n \in ReadCounts, o \in ReadOracles :
       Finish(read_memory(Machine(o), t, a, n),
              [op |-> "read_memory", mem_type |-> t, addr |-> a, count |-> n])

WriteMemory ==
  /\ pc = "idle"
  /\ \E t \in MemTypes, a \in WriteAddrs, n \in WriteCounts, s \in Seeds, o \in Oracles :
       Finish(write_memory(Machine(o), t, a, n, s),
              [op |-> "write_memory", mem_type |-> t, addr |-> a, count |-> n])

\* the protocol layer sends the response and takes the next request
Return ==
  /\ pc = "done"
  /\ pc' = "idle"
  /\ req' = NoRequest
  /\ ret' = TRUE
  /\ rsp' = "NONE"
  /\ data' = <<>>
  /\ trace' = <<>>
  /\ calls' = <<>>
  /\ UNCHANGED <<UPDI_CONTROL, UPDI_NVMCTRL, features, flash_page_size, sib,
                 signature, nvm_signature_offset, ctrla, sig_writes, busy_polls>>

NextWrite == WriteMemory \/ Return
NextRead == ReadSignature \/ ReadMemory \/ Return

SpecWrite == InitWrite /\ [][NextWrite]_vars
SpecRead == InitRead /\ [][NextRead]_vars

(***************************************************************************)
(* Vocabulary of the properties.                                           *)
(***************************************************************************)
Idx == 1..Len(trace)
IsDelay(e) == e.op = "delay_50us"
IsByteLoad(e) == e.op = "ld8"
IsChecked(e) == ~IsDelay(e) /\ ~IsByteLoad(e)
TransportOps == SelectSeq(trace, LAMBDA e : ~IsDelay(e))
CheckedOps == SelectSeq(trace, IsChecked)
IsCtrlWrite(e, cmd) == e.op = "st8" /\ e.reg = "NVMCTRL_REG_CTRLA" /\ e.cmd = cmd
IsCtrlRead(e, cmd) == e.op = "ld8" /\ e.reg = "NVMCTRL_REG_CTRLA" /\ e.cmd = cmd
IsTrigger(e) == e.op = "st8" /\ e.reg = "MEM" /\ e.bytes = <<255>>
IsDataLoad(e) ==
  /\ e.reg = "MEM"
  /\ e.op \in {"st8", "sts8", "sts8rsd", "sts16rsd"}
  /\ ~IsTrigger(e)
NoDataLoad == \A i \in Idx : ~IsDataLoad(trace[i])
Working == \A i \in Idx : trace[i].ok

EepromWriters == {"write_eeprom_v0", "write_eeprom_v2", "write_eeprom_v3"}
FlashWriters == {"write_flash_v0", "write_flash_v2", "write_flash_v3"}

WriteDone == pc = "done" /\ req.op = "write_memory"
ReadDone == pc = "done" /\ req.op = "read_memory"
InWriter(fns) == WriteDone /\ calls # <<>> /\ calls[1].fn \in fns

\* the memory type the dispatcher works with, after the IO-space override
PostType == IF req.addr >= 16777216 THEN "MTYPE_SRAM" ELSE req.mem_type
UserRowPath == "INFO" \in UPDI_CONTROL /\ PostType = "MTYPE_XMEGA_USERSIG"
Gen0 == "GEN2" \notin UPDI_NVMCTRL /\ "GEN3" \notin UPDI_NVMCTRL

(***************************************************************************)
(* C1: in each of the six flash/EEPROM writers a failed store to the       *)
(* target, the store that loads the data bytes included, ends the writer   *)
(* at once with failure: the failed store is the last operation of the     *)
(* trace and the call returns false (so no commit follows a failed data    *)
(* load).                                                                  *)
(***************************************************************************)
C1_FailureEndsWriter ==
  InWriter(EepromWriters \cup FlashWriters) =>
    \A i \in Idx : (IsChecked(trace[i]) /\ ~trace[i].ok) => (i = Len(trace) /\ ~ret)

(***************************************************************************)
(* C2: a second read_signature at the canonical offset in program mode     *)
(* whose transport read fails returns the byte cached before and leaves    *)
(* the cached signature unchanged.                                         *)
(***************************************************************************)
SecondCanonicalFails ==
  /\ pc = "idle" /\ sig_writes >= 1 /\ "PROG" \in UPDI_CONTROL
  /\ req'.op = "read_signature" /\ req'.addr = SignatureOffset
  /\ trace' # <<>> /\ ~trace'[1].ok

AcceptedReadCount(n) == n >= 1 /\ n <= 512 /\ (n > 256 => n % 2 = 0)
LockedRead == ReadDone /\ "PROG" \notin UPDI_CONTROL /\ AcceptedReadCount(req.count)
AllFF(n) == [i \in 1..n |-> 255]

C3_LockedReadAllFF ==
  LockedRead => (ret /\ data = AllFF(req.count) /\ trace = <<>>)

(* C3 as amended: with the program-mode flag clear, read_memory issues no  *)
(* transport call, and returns success with exactly n bytes 0xFF unless    *)
(* the request is a 1-byte read with the signature memory type in a build  *)
(* with signature emulation, which read_signature answers.                 *)
SignatureDelegated ==
  req.count = 1 /\ req.mem_type = "MTYPE_SIGN_JTAG" /\ "LOCK_SIG" \in features

C3_LockedReadAmended ==
  LockedRead =>
    /\ trace = <<>>
    /\ ~SignatureDelegated => (ret /\ data = AllFF(req.count))

C3_Witness ==
  LockedRead /\ req.count = 512 /\ Len(data) = 512 /\ data[512] = 255 /\ ret

(***************************************************************************)
(* C4: every protocol-level rejection of write_memory (zero or oversized   *)
(* count, flash count that is not the page size, unrecognized memory type, *)
(* write on a locked target) returns true with a result code other than    *)
(* OK, and write_memory returns false only when a transport operation      *)
(* failed.                                                                 *)
(***************************************************************************)
KnownTypes == FlashTypes \cup FuseTypes \cup EepromTypes \cup {"MTYPE_SRAM"}
EepromCeiling ==
  IF "GEN3" \in UPDI_NVMCTRL THEN 8 ELSE IF "GEN2" \in UPDI_NVMCTRL THEN 2 ELSE 64
ToEepromWriter ==
  PostType \in EepromTypes \/ (PostType \in FuseTypes /\ ~Gen0)

Locked == WriteDone /\ ~UserRowPath /\ "PROG" \notin UPDI_CONTROL
Dispatched == WriteDone /\ ~UserRowPath /\ "PROG" \in UPDI_CONTROL
RejectedPage ==
  Dispatched /\ PostType \in FlashTypes /\ req.count # flash_page_size /\ req.count # 256
RejectedCount ==
  /\ Dispatched /\ PostType \notin FlashTypes
  /\ \/ req.count = 0 \/ req.count > 256
     \/ (ToEepromWriter /\ req.count > EepromCeiling)
RejectedType ==
  Dispatched /\ PostType \notin KnownTypes /\ req.count >= 1 /\ req.count <= 256
SizeOrTypeRejected == RejectedPage \/ RejectedCount \/ RejectedType

CheckedFailure == \E i \in Idx : IsChecked(trace[i]) /\ ~trace[i].ok

C4_RejectionsSucceed ==
  /\ (SizeOrTypeRejected \/ Locked) => (ret /\ rsp # "RSP_OK")
  /\ (WriteDone /\ ~ret) => CheckedFailure

(* C4 as amended: a rejection for size or type (zero or oversized count,   *)
(* flash count that is neither the page size nor 256, unrecognized memory  *)
(* type) returns true with a result code other than OK and no transport    *)
(* operation; a write on a locked target outside the user-row path returns *)
(* false with the result code left at OK and no transport operation;       *)
(* write_memory returns false only in that case, when a checked transport  *)
(* operation failed, or when the Gen0 fuse writer's final status has a     *)
(* nonzero low 3-bit field.                                                *)
FuseStatusError ==
  /\ InWriter({"write_fuse"})
  /\ IsByteLoad(trace[Len(trace)]) /\ trace[Len(trace)].reg = "NVMCTRL_REG_STATUS"
  /\ trace[Len(trace)].bytes[1] % 8 # 0

C4_RejectionsAmended ==
  /\ SizeOrTypeRejected => (ret /\ rsp # "RSP_OK" /\ trace = <<>>)
  /\ Locked => (~ret /\ rsp = "RSP_OK" /\ trace = <<>>)
  /\ (WriteDone /\ ~ret) => (Locked \/ CheckedFailure \/ FuseStatusError)

C4_Witness ==
  Locked /\ "INFO" \in UPDI_CONTROL /\ PostType \in FlashTypes /\ ~ret /\ rsp = "RSP_OK"

(***************************************************************************)
(* C5: while the program-mode flag is clear, the only transport operation  *)
(* write_memory can issue is write_user_row, and only when the info flag   *)
(* is set and the memory type after the override is the user-signature     *)
(* class; every other request returns false without a transport operation. *)
(***************************************************************************)
C5_LockedWrite ==
  (WriteDone /\ "PROG" \notin UPDI_CONTROL) =>
    IF UserRowPath
    THEN /\ Len(trace) = 1 /\ trace[1].op = "write_userrow" /\ calls = <<>>
         /\ ret = trace[1].ok
    ELSE trace = <<>> /\ calls = <<>> /\ ~ret

C5_Witness ==
  /\ WriteDone /\ "PROG" \notin UPDI_CONTROL /\ UserRowPath
  /\ Len(trace) = 1 /\ trace[1].op = "write_userrow" /\ ret

(***************************************************************************)
(* C6: in each flash writer, with is_page_boundary the erase sub-sequence  *)
(* comes strictly before the data load and a failed step of it prevents    *)
(* the data load; without is_page_boundary no erase or buffer-clear        *)
(* command is written to the control register before the data load.        *)
(***************************************************************************)
FlashCall == InWriter(FlashWriters)
Latches(e, cmd) == (IsCtrlWrite(e, cmd) /\ e.ok) \/ IsCtrlRead(e, cmd)

EraseBefore(d) ==
  IF calls[1].fn = "write_flash_v0"
  THEN \E i \in 1..(d - 1) : IsCtrlWrite(trace[i], "PBC") /\ trace[i].ok
  ELSE IF calls[1].fn = "write_flash_v2"
  THEN \E i \in 1..(d - 1), j \in 1..(d - 1) :
         i < j /\ Latches(trace[i], "FLPER") /\ IsTrigger(trace[j]) /\ trace[j].ok
  ELSE \E i \in 1..(d - 1), j \in 1..(d - 1) :
         i < j /\ IsTrigger(trace[i]) /\ trace[i].ok
               /\ IsCtrlWrite(trace[j], "FLPER") /\ trace[j].ok

\* a failed checked operation that is not the data load: a failed step
\* before the data load
FailedBeforeLoad ==
  \E i \in Idx : /\ IsChecked(trace[i]) /\ ~trace[i].ok /\ ~IsDataLoad(trace[i])
                 /\ \A k \in 1..(i - 1) : ~IsDataLoad(trace[k])

BoundOrder ==
  (FlashCall /\ calls[1].bound) =>
    /\ \A d \in Idx : IsDataLoad(trace[d]) => EraseBefore(d)
    /\ FailedBeforeLoad => NoDataLoad

NoCommandBeforeLoad(cmds) ==
  \A d \in Idx : IsDataLoad(trace[d]) =>
    \A i \in 1..(d - 1) :
      ~IsTrigger(trace[i]) /\ \A c \in cmds : ~IsCtrlWrite(trace[i], c)

C6_EraseOrder ==
  /\ BoundOrder
  /\ (FlashCall /\ ~calls[1].bound) => NoCommandBeforeLoad({"PBC", "FLPER", "FLPBCLR"})

(* C6 as amended: with is_page_boundary the erase sub-sequence (FLPER      *)
(* written, or found latched by the arbiter's read of the control          *)
(* register, for Gen2/4) comes strictly before the data load and a failed  *)
(* step prevents the data load; without is_page_boundary no erase command  *)
(* (PBC, FLPER) and no 0xFF trigger store precedes the data load, but the  *)
(* Gen3/5 writer writes the buffer-clear command FLPBCLR before the data   *)
(* load, and the data load is not issued when that write fails.            *)
C6_EraseOrderAmended ==
  /\ BoundOrder
  /\ (FlashCall /\ ~calls[1].bound) =>
       /\ NoCommandBeforeLoad({"PBC", "FLPER"})
       /\ FailedBeforeLoad => NoDataLoad
       /\ calls[1].fn = "write_flash_v3" =>
            \A d \in Idx : IsDataLoad(trace[d]) =>
              \E i \in 1..(d - 1) : IsCtrlWrite(trace[i], "FLPBCLR") /\ trace[i].ok
       /\ calls[1].fn # "write_flash_v3" => NoCommandBeforeLoad({"FLPBCLR"})

C6_Witness ==
  /\ FlashCall /\ ~calls[1].bound /\ calls[1].fn = "write_flash_v3"
  /\ \E d \in Idx : IsDataLoad(trace[d]) /\
       \E i \in 1..(d - 1) : IsCtrlWrite(trace[i], "FLPBCLR")

(***************************************************************************)
(* C7: in program mode a flash-class write (memory type after the          *)
(* override) whose count is neither the page size nor 256 yields           *)
(* NO_TARGET_POWER, returns true and issues no transport operation, for    *)
(* every setting of the capability bits; with a count equal to the page    *)
(* size or 256 it is routed to the flash writer of the generation.         *)
(***************************************************************************)
FlashWriterOfGen ==
  IF "GEN3" \in UPDI_NVMCTRL THEN "write_flash_v3"
  ELSE IF "GEN2" \in UPDI_NVMCTRL THEN "write_flash_v2" ELSE "write_flash_v0"

C7_PageSizeMismatch ==
  (Dispatched /\ PostType \in FlashTypes) =>
    IF req.count # flash_page_size /\ req.count # 256
    THEN rsp = "RSP_NO_TARGET_POWER" /\ ret /\ trace = <<>> /\ calls = <<>>
    ELSE /\ Len(calls) = 1 /\ calls[1].fn = FlashWriterOfGen
         /\ calls[1].n = req.count /\ rsp = "RSP_OK"

C7_Witness ==
  /\ Dispatched /\ PostType = "MTYPE_XMEGA_BOOT_FLASH" /\ "GEN3" \in UPDI_NVMCTRL
  /\ flash_page_size = 512 /\ req.count = 64
  /\ rsp = "RSP_NO_TARGET_POWER" /\ ret /\ trace = <<>>

(***************************************************************************)
(* C8: each EEPROM writer rejects a count above its ceiling (Gen0 64,      *)
(* Gen2/4 2, Gen3/5 8) with ILLEGAL_MEMORY_RANGE, returning true without   *)
(* any transport operation, and never rejects a count from 1 up to its     *)
(* ceiling.                                                                *)
(***************************************************************************)
CeilingOf(fn) ==
  IF fn = "write_eeprom_v0" THEN 64 ELSE IF fn = "write_eeprom_v2" THEN 2 ELSE 8

C8_EepromCeiling ==
  InWriter(EepromWriters) =>
    IF calls[1].n > CeilingOf(calls[1].fn)
    THEN rsp = "RSP_ILLEGAL_MEMORY_RANGE" /\ ret /\ trace = <<>>
    ELSE /\ calls[1].n >= 1 /\ rsp = "RSP_OK"
         /\ \E i \in Idx : IsChecked(trace[i])
         /\ \A i \in Idx : IsDataLoad(trace[i]) => Len(trace[i].bytes) = calls[1].n

C8_Witness ==
  /\ InWriter({"write_eeprom_v2"}) /\ calls[1].n = 3
  /\ rsp = "RSP_ILLEGAL_MEMORY_RANGE" /\ ret /\ trace = <<>>

(***************************************************************************)
(* C9: read_memory yields ILLEGAL_MEMORY_RANGE, returning true with no     *)
(* transport call and no data, exactly when the count is 0, above 512, or  *)
(* odd and above 256.                                                      *)
(***************************************************************************)
C9_ReadCount ==
  ReadDone =>
    IF AcceptedReadCount(req.count)
    THEN rsp # "RSP_ILLEGAL_MEMORY_RANGE"
    ELSE rsp = "RSP_ILLEGAL_MEMORY_RANGE" /\ ret /\ trace = <<>> /\ data = <<>>

C9_Witness ==
  ReadDone /\ req.count = 257 /\ rsp = "RSP_ILLEGAL_MEMORY_RANGE" /\ ret /\ trace = <<>>

(***************************************************************************)
(* C10: the Gen0 fuse writer, for one byte at address A with a working     *)
(* transport, issues after its initial status wait exactly one 4-byte      *)
(* block store to the data register (data, padding, address low, address   *)
(* high) and then exactly one WFU command, and returns true iff the status *)
(* of the final wait has its low 3 bits zero; a failed block store or WFU  *)
(* write ends it with failure.                                             *)
(***************************************************************************)
OneFuse == InWriter({"write_fuse"}) /\ req.count = 1

FusePacketOf(A, d) ==
  [op |-> "sts8", reg |-> "NVMCTRL_REG_DATA", addr |-> 0, cmd |-> "",
   bytes |-> <<d, 0, A % 256, A \div 256>>, ok |-> TRUE]
WfuCommand ==
  [op |-> "st8", reg |-> "NVMCTRL_REG_CTRLA", addr |-> 0, cmd |-> "WFU",
   bytes |-> <<>>, ok |-> TRUE]
IsStatusPoll(e) == IsByteLoad(e) /\ e.reg = "NVMCTRL_REG_STATUS"

C10_FuseSequence ==
  OneFuse =>
    /\ Working =>
         /\ \E d \in Seeds : CheckedOps = <<FusePacketOf(req.addr % 65536, d), WfuCommand>>
         /\ IsStatusPoll(trace[1])
         /\ \E k \in Idx : /\ IsChecked(trace[k])
                           /\ \A i \in 1..(k - 1) : ~IsChecked(trace[i])
                           /\ IsStatusPoll(trace[k - 1])
                           /\ trace[k - 1].bytes[1] % 4 = 0
         /\ IsStatusPoll(trace[Len(trace)])
         /\ ret <=> (trace[Len(trace)].bytes[1] % 8 = 0)
    /\ \A i \in Idx : (IsChecked(trace[i]) /\ ~trace[i].ok) => (i = Len(trace) /\ ~ret)
    /\ \A i \in Idx : IsChecked(trace[i]) => trace[i].reg # "MEM"

C10_Witness ==
  /\ OneFuse /\ Working /\ Len(CheckedOps) = 2 /\ ~ret
  /\ trace[Len(trace)].bytes[1] = 4

(***************************************************************************)
(* The Command Arbiter on its own: one call of nvm_ctrl_change with any    *)
(* opcode, whatever the control register holds.                            *)
(***************************************************************************)
Opcodes ==
  {"NOCMD", "WFU", "ERWP", "PBC", "EEERWR", "FLPER", "FLWR",
   "EEPBCLR", "EEPERW", "FLPBCLR", "FLPW"}

CtrlOracles ==
  {Nominal}
    \cup {[Nominal EXCEPT !.sf = k] : k \in 1..2}
    \cup {[Nominal EXCEPT !.lf = 1, !.g = g] : g \in {0, 255}}

InitCtrl ==
  /\ UPDI_CONTROL = {"PROG"}
  /\ UPDI_NVMCTRL = {"GEN2"}
  /\ features = {"LOCK_SIG", "DUMP_SIB"}
  /\ flash_page_size = 512
  /\ sib = [i \in 0..31 |-> 64 + i]
  /\ InitCommon

ChangeCommand ==
  /\ pc = "idle"
  /\ \E c \in Opcodes, o \in CtrlOracles :
       Finish(nvm_ctrl_change(Machine(o), c),
              [op |-> "nvm_ctrl_change", mem_type |-> "", addr |-> 0, count |-> 0,
               cmd |-> c])

NextCtrl == ChangeCommand \/ Return

SpecCtrl == InitCtrl /\ [][NextCtrl]_vars

(***************************************************************************)
(* C11: change_command is idempotent: when the control register already    *)
(* reads the opcode it returns success without a transport write;          *)
(* otherwise it writes NOCMD first and then the opcode, the latter only if *)
(* the opcode is not NOCMD; it returns failure only when one of the two    *)
(* writes fails.                                                           *)
(***************************************************************************)
ChangeDone == pc = "done" /\ req.op = "nvm_ctrl_change"
CtrlWrites == SelectSeq(trace, LAMBDA e : e.op = "st8" /\ e.reg = "NVMCTRL_REG_CTRLA")

C11_ChangeCommand ==
  ChangeDone =>
    /\ Len(trace) >= 1 /\ IsByteLoad(trace[1]) /\ trace[1].reg = "NVMCTRL_REG_CTRLA"
    /\ CheckedOps = CtrlWrites /\ Len(trace) = 1 + Len(CtrlWrites)
    /\ IF trace[1].cmd = req.cmd
       THEN CtrlWrites = <<>> /\ ret
       ELSE /\ Len(CtrlWrites) >= 1 /\ CtrlWrites[1].cmd = "NOCMD"
            /\ IF ~CtrlWrites[1].ok THEN Len(CtrlWrites) = 1 /\ ~ret
               ELSE IF req.cmd = "NOCMD" THEN Len(CtrlWrites) = 1 /\ ret
               ELSE /\ Len(CtrlWrites) = 2 /\ CtrlWrites[2].cmd = req.cmd
                    /\ ret = CtrlWrites[2].ok
    /\ ~ret => \E i \in 1..Len(CtrlWrites) : ~CtrlWrites[i].ok

C11_Witness ==
  /\ ChangeDone /\ req.cmd = "NOCMD" /\ trace[1].cmd = "NOCMD" /\ trace[1].ok
  /\ Len(trace) = 1 /\ ret

(***************************************************************************)
(* C12: once a signature has been cached, read_signature(start_addr)       *)
(* returns success only when start_addr lies inside the 3-byte window      *)
(* [offset, offset+2] of the offset the signature was cached at; every     *)
(* start_addr outside the window, addresses 256 or more away included, is  *)
(* answered with the failure classification.                               *)
(***************************************************************************)
SignatureDone == pc = "done" /\ req.op = "read_signature"
InWindow == req.addr >= nvm_signature_offset /\ req.addr <= nvm_signature_offset + 2

C12_SignatureWindow ==
  (SignatureDone /\ sig_writes >= 1) => (ret <=> InWindow)

(***************************************************************************)
(* The Status Waiter step by step: one poll of the status register, or one *)
(* delay, per step.  The target reads busy for busy_polls more polls (for  *)
(* ever when busy_polls is -1) and idle afterwards.  The trace keeps the   *)
(* first MaxWaitTrace operations of the wait.                              *)
(***************************************************************************)
MaxWaitTrace == 2 * MaxBusy + 1
BusyStatus == {1, 2, 3}
IdleStatus == {0, 4}

\* the loop condition of nvm_wait / nvm_wait_v3
StatusBusy_low(status) == BitAnd(status, 1) # 0

StatusBusy(status) == BitAnd(status, 3) # 0

StatusRegOf(fn) ==
  IF fn = "nvm_wait_v3" THEN "NVMCTRL_V3_REG_STATUS" ELSE "NVMCTRL_REG_STATUS"

Record(e) == IF Len(trace) < MaxWaitTrace THEN Append(trace, e) ELSE trace

InitWait ==
  /\ UPDI_CONTROL = {"PROG"}
  /\ UPDI_NVMCTRL \in {{}, {"GEN3"}}
  /\ features = {"LOCK_SIG", "DUMP_SIB"}
  /\ flash_page_size = 64
  /\ sib = [i \in 0..31 |-> 64 + i]
  /\ InitCommon

WaitStart ==
  /\ pc = "idle"
  /\ pc' = "poll"
  /\ \E fn \in {"nvm_wait", "nvm_wait_v3"} :
       req' = [op |-> fn, mem_type |-> "", addr |-> 0, count |-> 0]
  /\ busy_polls' \in -1..MaxBusy
  /\ UNCHANGED <<UPDI_CONTROL, UPDI_NVMCTRL, features, flash_page_size, sib, signature,
                 nvm_signature_offset, ctrla, ret, rsp, data, trace, calls, sig_writes>>

Poll ==
  /\ pc = "poll"
  /\ \E status \in (IF busy_polls = 0 THEN IdleStatus ELSE BusyStatus) :
       /\ trace' = Record(Entry("ld8", StatusRegOf(req.op), 0, "", <<status>>, TRUE))
       /\ data' = <<status>>
       /\ pc' = IF StatusBusy(status) THEN "delay" ELSE "done"
  /\ busy_polls' = IF busy_polls > 0 THEN busy_polls - 1 ELSE busy_polls
  /\ UNCHANGED <<UPDI_CONTROL, UPDI_NVMCTRL, features, flash_page_size, sib, signature,
                 nvm_signature_offset, ctrla, req, ret, rsp, calls, sig_writes>>

Delay ==
  /\ pc = "delay"
  /\ pc' = "poll"
  /\ trace' = Record(Entry("delay_50us", "", 0, "", <<>>, TRUE))
  /\ UNCHANGED <<UPDI_CONTROL, UPDI_NVMCTRL, features, flash_page_size, sib, signature,
                 nvm_signature_offset, ctrla, req, ret, rsp, data, calls, sig_writes,
                 busy_polls>>

NextWait == WaitStart \/ Poll \/ Delay \/ Return

\* the firmware is a single thread that keeps running
SpecWait == InitWait /\ [][NextWait]_vars /\ WF_vars(Poll) /\ WF_vars(Delay)

(***************************************************************************)
(* C13: the Status Waiter returns exactly at the first poll whose status   *)
(* has both low bits clear and returns that byte, with one delay between   *)
(* consecutive polls; it has no poll limit: if the status eventually reads *)
(* with both low bits clear the wait terminates, and if the status stays   *)
(* busy for ever the wait never returns.                                   *)
(***************************************************************************)
Waiting == req.op \in {"nvm_wait", "nvm_wait_v3"}
IsPollOf(e, reg) == e.op = "ld8" /\ e.reg = reg

WaitShape ==
  Waiting =>
    /\ \A i \in Idx : IF i % 2 = 1 THEN IsPollOf(trace[i], StatusRegOf(req.op))
                      ELSE IsDelay(trace[i])
    /\ \A i \in Idx : (IsByteLoad(trace[i]) /\ i < Len(trace)) => trace[i].bytes[1] % 4 # 0
    /\ pc = "done" =>
         /\ trace # <<>> /\ IsByteLoad(trace[Len(trace)])
         /\ data = trace[Len(trace)].bytes /\ data[1] % 4 = 0
    /\ busy_polls = -1 => pc # "done"

C13_StatusWaiter ==
  /\ []WaitShape
  /\ (Waiting /\ pc = "poll" /\ busy_polls >= 0) ~> (pc = "done")

C13_Witness ==
  /\ Waiting /\ pc = "done" /\ req.op = "nvm_wait_v3"
  /\ Len(trace) = 5 /\ data = <<4>>

(***************************************************************************)
(* C14: in program mode on a generation-0 controller a fuse or lock-bit    *)
(* write of n bytes (1..256) enters the Fuse Writer once per byte at       *)
(* consecutive increasing addresses; the first byte whose fuse write fails *)
(* makes write_memory return false with no later byte attempted, and if    *)
(* all n succeed write_memory returns true with response OK; on every      *)
(* other generation the request goes unchanged to the generation's EEPROM  *)
(* writer and the Fuse Writer is not entered.                              *)
(***************************************************************************)
FuseRequest ==
  Dispatched /\ PostType \in FuseTypes /\ req.count >= 1 /\ req.count <= 256

EepromWriterOfGen ==
  IF "GEN3" \in UPDI_NVMCTRL THEN "write_eeprom_v3"
  ELSE IF "GEN2" \in UPDI_NVMCTRL THEN "write_eeprom_v2" ELSE "write_eeprom_v0"

FusePackets ==
  SelectSeq(trace, LAMBDA e : e.op = "sts8" /\ e.reg = "NVMCTRL_REG_DATA")

IsIdlePoll(e) == IsStatusPoll(e) /\ e.bytes[1] % 4 = 0

\* a wait makes at most this many polls and delays
WaitSpan == 2 * (MaxBusy + MaxGarble) + 4

\* the poll that ends the wait after the WFU command written at index i
\* (0 when the trace ends before)
FinalPollAfter(i) ==
  LET last == IF Len(trace) < i + WaitSpan THEN Len(trace) ELSE i + WaitSpan
      idle == {k \in (i + 1)..last : IsIdlePoll(trace[k])}
  IN IF idle = {} THEN 0 ELSE CHOOSE k \in idle : \A l \in idle : k <= l

FuseWriteFailedAt(i) ==
  \/ IsChecked(trace[i]) /\ ~trace[i].ok
  \/ /\ IsIdlePoll(trace[i]) /\ trace[i].bytes[1] % 8 # 0
     /\ \E j \in (IF i > WaitSpan THEN i - WaitSpan ELSE 1)..(i - 1) :
          IsCtrlWrite(trace[j], "WFU") /\ trace[j].ok /\ FinalPollAfter(j) = i

C14_FuseDispatch ==
  FuseRequest =>
    IF Gen0
    THEN /\ Len(calls) >= 1 /\ Len(calls) <= req.count
         /\ \A k \in 1..Len(calls) :
              calls[k] = [fn |-> "write_fuse", addr |-> (req.addr + k - 1) % 65536,
                          n |-> 1, bound |-> FALSE]
         /\ Len(FusePackets) \in {Len(calls) - 1, Len(calls)}
         /\ \A k \in 1..Len(FusePackets) : \E d \in Seeds :
              FusePackets[k].bytes =
                <<(d + k - 1) % 256, 0, ((req.addr + k - 1) % 65536) % 256,
                  ((req.addr + k - 1) % 65536) \div 256>>
         /\ \A i \in Idx : FuseWriteFailedAt(i) => (i = Len(trace) /\ ~ret)
         /\ ret => (Len(calls) = req.count /\ rsp = "RSP_OK")
         /\ ~ret => FuseWriteFailedAt(Len(trace))
    ELSE calls = <<[fn |-> EepromWriterOfGen, addr |-> req.addr, n |-> req.count,
                    bound |-> FALSE]>>

C14_Witness ==
  /\ FuseRequest /\ Gen0 /\ req.count = 9 /\ ~ret
  /\ Len(calls) = 4 /\ calls[4].addr = req.addr + 3
  /\ ~trace[Len(trace)].ok

(***************************************************************************)
(* C15: on generation 2/3/4/5 controllers no opcode other than NOCMD is    *)
(* written to the control register while the register holds a different    *)
(* opcode other than NOCMD, in any flash or EEPROM writer of Gen2/4 and    *)
(* Gen3/5; the register holds the last opcode written.                     *)
(***************************************************************************)
LaterGenWriters ==
  {"write_eeprom_v2", "write_eeprom_v3", "write_flash_v2", "write_flash_v3"}

IsAnyCtrlWrite(e) == e.op = "st8" /\ e.reg = "NVMCTRL_REG_CTRLA"

\* the opcode the register holds before operation i of the trace tr of a
\* call that found c0 in the register
HeldBefore(tr, i, c0) ==
  LET ws == {j \in 1..(i - 1) : IsAnyCtrlWrite(tr[j]) /\ tr[j].ok}
  IN IF ws = {} THEN c0 ELSE tr[CHOOSE j \in ws : \A l \in ws : l <= j].cmd

NoOverwrite(tr, c0) ==
  \A i \in 1..Len(tr) :
    (IsAnyCtrlWrite(tr[i]) /\ tr[i].cmd # "NOCMD") =>
      HeldBefore(tr, i, c0) \in {"NOCMD", tr[i].cmd}

C15_NoOverwrite ==
  [][(pc = "idle" /\ pc' = "done" /\ calls' # <<>> /\ calls'[1].fn \in LaterGenWriters)
       => NoOverwrite(trace', ctrla)]_vars

(***************************************************************************)
(* C16: no flash writer is handed more bytes than the bulk ceiling of its  *)
(* generation (Gen2/4: 512, the others 256) and no writer is handed a      *)
(* count of 0; the Gen2/4 writer loads with the 16-bit-addressed bulk      *)
(* store exactly when the count exceeds 256; the 8-bit-addressed bulk      *)
(* store never carries more than 256 bytes.                                *)
(***************************************************************************)
FlashCeiling(fn) == IF fn = "write_flash_v2" THEN 512 ELSE 256

IsBulkLoad(e) == IsDataLoad(e) /\ e.op \in {"sts8rsd", "sts16rsd"}

C16_FlashCeiling ==
  WriteDone =>
    /\ \A k \in 1..Len(calls) : calls[k].n >= 1
    /\ FlashCall => calls[1].n <= FlashCeiling(calls[1].fn)
    /\ \A i \in Idx :
         IsBulkLoad(trace[i]) =>
           /\ trace[i].op = "sts8rsd" => Len(trace[i].bytes) <= 256
           /\ trace[i].op = "sts16rsd" <=> Len(trace[i].bytes) > 256

(***************************************************************************)
(* C17: in a build with the identification-block dump, a 1-byte read in    *)
(* program mode whose memory type is not the signature type is answered    *)
(* from the cached identification block, with no transport operation,      *)
(* exactly when the full 32-bit start address is in 0..31, and then        *)
(* returns block byte number start_addr; at every other address it is one  *)
(* read of the target at that address.                                     *)
(***************************************************************************)
OneByteRead ==
  /\ ReadDone /\ req.count = 1 /\ req.mem_type # "MTYPE_SIGN_JTAG"
  /\ "PROG" \in UPDI_CONTROL /\ "DUMP_SIB" \in features

C17_SibWindow ==
  OneByteRead =>
    IF req.addr < 32
    THEN ret /\ trace = <<>> /\ data = <<sib[req.addr]>>
    ELSE Len(trace) = 1 /\ trace[1].op = "lds8" /\ trace[1].addr = req.addr

(***************************************************************************)
(* C18: for every accepted flash-class write the dispatcher passes         *)
(* is_page_boundary = true exactly when boundary-force-off is not          *)
(* configured, the start address is a multiple of the flash page size and  *)
(* the byte count equals the page size.                                    *)
(***************************************************************************)
PageAligned == req.addr % flash_page_size = 0
ForceOff == "ERFM" \in UPDI_CONTROL

C18_Boundary ==
  FlashCall =>
    (calls[1].bound <=> (~ForceOff /\ PageAligned /\ req.count = flash_page_size))

(* C18 as amended: the flag is true exactly when boundary-force-off is not *)
(* configured and the start address is a multiple of the page size,        *)
(* whatever the accepted byte count (the page size or 256).                *)
C18_BoundaryAmended ==
  FlashCall => (calls[1].bound <=> (~ForceOff /\ PageAligned))

C18_Witness ==
  /\ FlashCall /\ calls[1].bound
  /\ flash_page_size = 512 /\ req.count = 256 /\ req.addr = 32768

(***************************************************************************)
(* C19: with a working transport the Gen3/5 flash writer's trace is a wait *)
(* on the generation-3 status register, then on a page boundary the 0xFF   *)
(* store to the start address followed by FLPER, otherwise FLPBCLR alone,  *)
(* then a second wait on the generation-3 status register that ends right  *)
(* before the data load, the data load, and FLPW as the last operation;    *)
(* it never reads the generation 0/2/4 status register.  The Gen2/4 flash  *)
(* writer's trace on a page boundary is the FLPER command, the 0xFF store, *)
(* the FLWR command, the data load and the NOCMD command as the last       *)
(* operation, where each command is a step of the arbiter: a wait on the   *)
(* status register that ends idle, the read of the control register, and   *)
(* the opcode written after a NOCMD clear (FLPER is not written again when *)
(* the read finds it latched).                                             *)
(***************************************************************************)
IsV3Poll(e) == IsByteLoad(e) /\ e.reg = "NVMCTRL_V3_REG_STATUS"
IsIdle(e) == e.bytes[1] % 4 = 0
IsAnyCtrlRead(e) == IsByteLoad(e) /\ e.reg = "NVMCTRL_REG_CTRLA"

IsLoadOf(e, c) == IsDataLoad(e) /\ e.addr = c.addr /\ Len(e.bytes) = c.n
IsTriggerOf(e, c) == IsTrigger(e) /\ e.addr = c.addr

\* every delay follows a poll that read busy, every busy poll is followed by a delay
WaitsWellFormed(poll(_)) ==
  \A i \in Idx :
    /\ IsDelay(trace[i]) => (i > 1 /\ poll(trace[i - 1]) /\ ~IsIdle(trace[i - 1]))
    /\ (poll(trace[i]) /\ ~IsIdle(trace[i])) => (i < Len(trace) /\ IsDelay(trace[i + 1]))

\* the operation at index i comes right after a wait that ended idle
AfterWait(i, poll(_)) == i > 1 /\ poll(trace[i - 1]) /\ IsIdle(trace[i - 1])

FirstChecked == CHOOSE k \in Idx : IsChecked(trace[k]) /\ \A i \in 1..(k - 1) : ~IsChecked(trace[i])
LoadIndex == CHOOSE d \in Idx : IsDataLoad(trace[d])

FlashV3Shape ==
  LET c == calls[1]
      ops == CheckedOps
  IN /\ IF c.bound
        THEN /\ Len(ops) = 4
             /\ IsTriggerOf(ops[1], c) /\ IsCtrlWrite(ops[2], "FLPER")
        ELSE /\ Len(ops) = 3
             /\ IsCtrlWrite(ops[1], "FLPBCLR")
     /\ IsLoadOf(ops[Len(ops) - 1], c)
     /\ IsCtrlWrite(ops[Len(ops)], "FLPW")
     /\ IsCtrlWrite(trace[Len(trace)], "FLPW")
     /\ \A i \in Idx : IsByteLoad(trace[i]) => IsV3Poll(trace[i])
     /\ WaitsWellFormed(IsV3Poll)
     /\ AfterWait(FirstChecked, IsV3Poll)
     /\ AfterWait(LoadIndex, IsV3Poll)
     /\ LoadIndex = Len(trace) - 1

\* the steps of the arbiter: each read of the control register comes right
\* after a wait that ended idle, each write to it follows that read at
\* once or after the NOCMD clear
ArbiterSteps ==
  \A i \in Idx :
    /\ IsAnyCtrlRead(trace[i]) => AfterWait(i, IsStatusPoll)
    /\ IsAnyCtrlWrite(trace[i]) =>
         /\ i > 1
         /\ \/ IsAnyCtrlRead(trace[i - 1])
            \/ /\ i > 2 /\ trace[i].cmd # "NOCMD"
               /\ IsCtrlWrite(trace[i - 1], "NOCMD") /\ IsAnyCtrlRead(trace[i - 2])

FlashV2BoundShape ==
  LET c == calls[1]
      ops == SelectSeq(CheckedOps, LAMBDA e : ~IsCtrlWrite(e, "NOCMD") /\ ~IsCtrlWrite(e, "FLPER"))
      t == CHOOSE i \in Idx : IsTrigger(trace[i])
  IN /\ Len(ops) = 3
     /\ IsTriggerOf(ops[1], c) /\ IsCtrlWrite(ops[2], "FLWR") /\ IsLoadOf(ops[3], c)
     /\ \E i \in 1..(t - 1) : Latches(trace[i], "FLPER")
     /\ \A i \in Idx : IsCtrlWrite(trace[i], "FLPER") => i < t
     /\ Cardinality({i \in Idx : IsCtrlWrite(trace[i], "FLPER")}) <= 1
     /\ Cardinality({i \in Idx : IsAnyCtrlRead(trace[i])}) = 3
     /\ IsCtrlWrite(trace[Len(trace)], "NOCMD")
     /\ \A i \in Idx : IsByteLoad(trace[i]) => (IsStatusPoll(trace[i]) \/ IsAnyCtrlRead(trace[i]))
     /\ WaitsWellFormed(IsStatusPoll)
     /\ ArbiterSteps

C19_FlashTraces ==
  (FlashCall /\ Working) =>
    /\ calls[1].fn = "write_flash_v3" => FlashV3Shape
    /\ (calls[1].fn = "write_flash_v2" /\ calls[1].bound) => FlashV2BoundShape

C19_Witness ==
  /\ FlashCall /\ Working /\ ret
  /\ calls[1].fn = "write_flash_v3" /\ calls[1].bound
  /\ \E i \in Idx : IsDelay(trace[i])
  /\ IsCtrlWrite(trace[Len(trace)], "FLPW")

(***************************************************************************)
(* C20: a signature read at the canonical offset (0x1080 on generation 5,  *)
(* 0x1100 otherwise) resolves the 3-byte signature by mode, program mode   *)
(* first: in program mode one 3-byte read of the target at the offset,     *)
(* whose failure yields {0,0,0}; with program mode clear and info set      *)
(* {0x1E, c, sib[10]} with c = sib[0], or sib[4] when sib[0] is the space  *)
(* character, and no transport operation; with both clear                  *)
(* {0xFF,0xFF,0xFF} and no transport operation.  The call returns the      *)
(* first byte.                                                             *)
(***************************************************************************)
CanonicalAddress == IF "GEN5" \in UPDI_NVMCTRL THEN 4224 ELSE 4352

CanonicalRead ==
  /\ pc = "done"
  /\ \/ req.op = "read_signature" /\ req.addr = CanonicalAddress
     \/ /\ req.op = "read_memory" /\ SignatureDelegated
        /\ req.addr % 65536 = CanonicalAddress

\* 32 is the space character
SeriesCode == IF sib[0] = 32 THEN sib[4] ELSE sib[0]
Triple(a, b, c) == [i \in 0..2 |-> IF i = 0 THEN a ELSE IF i = 1 THEN b ELSE c]

C20_SignatureByMode ==
  CanonicalRead =>
    /\ nvm_signature_offset = CanonicalAddress
    /\ ret /\ data = <<signature[0]>>
    /\ IF "PROG" \in UPDI_CONTROL
       THEN /\ Len(trace) = 1 /\ trace[1].op = "lds8"
            /\ trace[1].addr = CanonicalAddress /\ Len(trace[1].bytes) = 3
            /\ signature = IF trace[1].ok
                           THEN [i \in 0..2 |-> trace[1].bytes[i + 1]]
                           ELSE Triple(0, 0, 0)
       ELSE /\ trace = <<>>
            /\ signature = IF "INFO" \in UPDI_CONTROL
                           THEN Triple(30, SeriesCode, sib[10])
                           ELSE Triple(255, 255, 255)

C20_Witness ==
  /\ CanonicalRead /\ UPDI_CONTROL = {"INFO"}
  /\ sib[0] = 32 /\ signature = Triple(30, sib[4], sib[10])
  /\ data = <<30>>

====
